---- MODULE Spec2Model ----
(***************************************************************************)
(* Model of the federated-learning demonstration harness:                  *)
(*   fl_server/server.py  ServerUI, RichStrategy, __main__                 *)
(*   fl_client/client.py  FlowerClient                                     *)
(* RichStrategy subclasses the framework's FedAvg strategy and the session *)
(* is driven by the framework's server loop; those parts are not in the    *)
(* repository and are modelled here from the design document (sections     *)
(* 4.2, 4.3) and the framework's defaults for the arguments that the       *)
(* RichStrategy construction leaves out.                                   *)
(*                                                                         *)
(* Numbers: a tensor is one number, kept as an exact fraction <<p, q>>     *)
(* in lowest terms with q > 0, so that weighted averages are exact.        *)
(***************************************************************************)
EXTENDS Integers, Sequences, FiniteSets, TLC

(* ------------------------------ bounds --------------------------------- *)

\* a dataset holds 1..MaxExamples examples
MaxExamples == 2
\* a trained tensor takes a value in 0..MaxWeight
MaxWeight == 1
\* length of the results list in a direct call of an aggregate callback
MaxResults == 2
\* length of the failures list in a direct call of an aggregate callback
MaxFailures == 1

(* ------------------------- program constants --------------------------- *)

num_rounds == 3
min_clients == 2
\* w.nbytes of one tensor (one float32 element)
TensorBytes == 4

(* ------------------------------ values --------------------------------- *)

None == "None"
\* the client processes of the deployment: the server waits for min_clients
Clients == 1..min_clients
Layers == {"kernel", "bias"}
ErrorMessages == {"address already in use", "transport closed"}

Abs(x) == IF x < 0 THEN -x ELSE x

\* the arithmetic is written as functions: their arguments are values
GCD[a \in Nat, b \in Nat] == IF b = 0 THEN a ELSE GCD[b, a % b]

\* a fraction in lowest terms
Norm[p \in Int, q \in Nat] == LET g == GCD[Abs(p), q] IN <<p \div g, q \div g>>
Rationals == Int \X Nat
RatAdd[a \in Rationals, b \in Rationals] == Norm[a[1] * b[2] + b[1] * a[2], a[2] * b[2]]
RatScale[a \in Rationals, n \in Int] == Norm[a[1] * n, a[2]]
RatDiv[a \in Rationals, n \in Nat] == Norm[a[1], a[2] * n]
Int2Rat(n) == <<n, 1>>

Tensors == {Int2Rat(w) : w \in 0..MaxWeight}
\* the weight lists a model can hold after local training or at creation:
\* two tensors, which differ whenever MaxWeight is odd
ParameterSets == {[l \in Layers |-> IF l = "kernel" THEN Int2Rat(w) ELSE Int2Rat(MaxWeight - w)] :
                    w \in 0..MaxWeight}

\* an optional value: python's None, or a value
NoneOf(zero) == [is_none |-> TRUE, value |-> zero]
Some(x) == [is_none |-> FALSE, value |-> x]
ZeroParameters == [l \in Layers |-> Int2Rat(0)]
NoParameters == NoneOf(ZeroParameters)
NoLoss == NoneOf(Int2Rat(0))

(* maps (python dicts) are sets of <<key, value>> pairs *)
EmptyMap == {}
Has(m, k) == \E p \in m : p[1] = k
Get(m, k, default) == IF Has(m, k) THEN (CHOOSE p \in m : p[1] = k)[2] ELSE default

Last(s) == s[Len(s)]

(* --------------------------- metric values ----------------------------- *)

\* a Scalar of a metrics map: <<kind, x>>
IntVal(n) == <<"int", n>>
RatVal(r) == <<"rat", r>>
\* a value int() raises on
BadVal == <<"str", 0>>
IntRaises(v) == v[1] = "str"
IntOf(v) == v[2]

(* ------------------------------ ServerUI ------------------------------- *)

\* ServerUI.log: one more row of the table
ui_log(table, event, details) == Append(table, [event |-> event, details |-> details])

RoundLabel(r) == <<"Round", r>>
StrategyLabel == <<"Strategy", 0>>
SetupLabel == <<"Server Setup", 0>>
FatalLabel == <<"FATAL ERROR", 0>>

\* the details strings, by their template and the numbers formatted into it
MsgInit == <<"Initializing global model parameters", 0, 0>>
MsgConfigureFit == <<"Configuring fit tasks", 0, 0>>
MsgNoResults == <<"No results received from clients", 0, 0>>
MsgAggregating(n) == <<"Aggregating results from n clients", n, 0>>
MsgBytes(up, down) == <<"up/down MB", up, down>>
MsgFailed(n) == <<"Warning: n clients failed", n, 0>>
MsgConfigureEvaluate == <<"Configuring evaluate tasks", 0, 0>>
MsgNoEvaluation == <<"No evaluation results", 0, 0>>
MsgAccuracy(a) == <<"AGGREGATED ACCURACY", a[1], a[2]>>
MsgNoAccuracy == <<"No accuracy metrics available", 0, 0>>
MsgListening == <<"Listening on address", 0, 0>>
MsgWaiting == <<"Waiting for clients to connect", min_clients, 0>>
MsgError(e) == <<e, 0, 0>>

\* ServerUI.__exit__: what the logger is told when the with-block is left
ServerUI_exit(exc_type) == IF exc_type # None THEN "shut down due to an error"
                           ELSE "shut down gracefully"

(* ---------------------------- FlowerClient ----------------------------- *)

\* the datasets the client processes load: client c holds len(x_train) =
\* x_train_len(c) training examples and len(x_test) = x_test_len(c) test
\* examples; the partitions differ in size from client to client
x_train_len(c) == ((c - 1) % MaxExamples) + 1
x_test_len(c) == (c % MaxExamples) + 1

\* what model.evaluate can return: <<loss, accuracy>>
EvaluateOutcomes == {<<Int2Rat(1), Int2Rat(0)>>, <<Int2Rat(0), Int2Rat(1)>>}

\* a list of weights as a client holds it: the tensors, and whether its
\* elements have an nbytes attribute
Weights(t, sized) == [tensors |-> t, sized |-> sized]
WeightLists == {Weights(t, s) : t \in ParameterSets, s \in BOOLEAN}

\* sum(w.nbytes for w in parameters); raises when an element has no nbytes
NBytesRaises(parameters) == ~parameters.sized
NBytes(parameters) == Cardinality(DOMAIN parameters.tensors) * TensorBytes

\* FlowerClient.fit: parameters come from the server, trained is what
\* model.get_weights() returns after the local epoch, n is len(x_train)
FlowerClient_fit(parameters, trained, n) ==
    LET down_bytes == IF NBytesRaises(parameters) THEN 0 ELSE NBytes(parameters)
        up_bytes == IF NBytesRaises(trained) THEN 0 ELSE NBytes(trained)
    IN [parameters |-> trained.tensors,
        num_examples |-> n,
        metrics |-> {<<"up_bytes", IntVal(up_bytes)>>, <<"down_bytes", IntVal(down_bytes)>>},
        metrics_is_dict |-> TRUE]

\* FlowerClient.evaluate: loss and accuracy are what model.evaluate returns,
\* n is len(x_test)
FlowerClient_evaluate(parameters, loss, accuracy, n) ==
    LET down_bytes == IF NBytesRaises(parameters) THEN 0 ELSE NBytes(parameters)
    IN [loss |-> loss,
        num_examples |-> n,
        metrics |-> {<<"accuracy", RatVal(accuracy)>>, <<"down_bytes", IntVal(down_bytes)>>}]

(* ------------------ the framework's FedAvg strategy -------------------- *)

\* mutant: the strategy is constructed with accept_failures=False
strategy_rejecting_failures ==
    [min_fit_clients |-> min_clients,
     min_evaluate_clients |-> min_clients,
     min_available_clients |-> min_clients,
     accept_failures |-> FALSE,
     fit_metrics_aggregation_fn |-> None,
     evaluate_metrics_aggregation_fn |-> None]

\* the RichStrategy construction of __main__: the three minimums are given,
\* every other argument keeps the framework's default
strategy == [min_fit_clients |-> min_clients,
             min_evaluate_clients |-> min_clients,
             min_available_clients |-> min_clients,
             accept_failures |-> TRUE,
             fit_metrics_aggregation_fn |-> None,
             evaluate_metrics_aggregation_fn |-> None]

\* sum of num_examples over the first i results
RECURSIVE ExamplesUpTo(_, _)
ExamplesUpTo(results, i) ==
    IF i = 0 THEN 0 ELSE results[i].num_examples + ExamplesUpTo(results, i - 1)

TotalExamples(results) == ExamplesUpTo(results, Len(results))

\* sum over the first i results of layer * num_examples, for one layer
RECURSIVE WeightedLayerSum(_, _, _)
WeightedLayerSum(results, l, i) ==
    IF i = 0 THEN Int2Rat(0)
    ELSE RatAdd[RatScale[results[i].parameters[l], results[i].num_examples],
                WeightedLayerSum(results, l, i - 1)]

\* federated averaging: new[l] = sum_c(n_c * w_c[l]) / sum_c(n_c)
aggregate(results) ==
    [l \in Layers |-> RatDiv[WeightedLayerSum(results, l, Len(results)), TotalExamples(results)]]

\* FedAvg.aggregate_fit: <<parameters, metrics>>
FedAvg_aggregate_fit(results, failures) ==
    IF results = <<>> THEN <<NoParameters, EmptyMap>>
    ELSE IF ~strategy.accept_failures /\ failures # <<>> THEN <<NoParameters, EmptyMap>>
    ELSE <<Some(aggregate(results)), EmptyMap>>

ResultAccuracy(r) == Get(r.metrics, "accuracy", RatVal(Int2Rat(0)))[2]

RECURSIVE WeightedLossSum(_, _)
WeightedLossSum(results, i) ==
    IF i = 0 THEN Int2Rat(0)
    ELSE RatAdd[RatScale[results[i].loss, results[i].num_examples],
                WeightedLossSum(results, i - 1)]

RECURSIVE WeightedAccuracySum(_, _)
WeightedAccuracySum(results, i) ==
    IF i = 0 THEN Int2Rat(0)
    ELSE RatAdd[RatScale[ResultAccuracy(results[i]), results[i].num_examples],
                WeightedAccuracySum(results, i - 1)]

\* sum(num_examples * loss) / sum(num_examples)
weighted_loss_avg(results) ==
    RatDiv[WeightedLossSum(results, Len(results)), TotalExamples(results)]

\* a metrics aggregation function as the design describes it: the weighted
\* average of the accuracy the clients report
weighted_accuracy_avg(results) ==
    IF \A i \in 1..Len(results) : Has(results[i].metrics, "accuracy")
    THEN {<<"accuracy", RatVal(RatDiv[WeightedAccuracySum(results, Len(results)), TotalExamples(results)])>>}
    ELSE EmptyMap

\* FedAvg.aggregate_evaluate: <<loss, metrics>>; the metrics are aggregated
\* only by the function the strategy was constructed with
FedAvg_aggregate_evaluate(results, failures) ==
    IF results = <<>> THEN <<NoLoss, EmptyMap>>
    ELSE IF ~strategy.accept_failures /\ failures # <<>> THEN <<NoLoss, EmptyMap>>
    ELSE <<Some(weighted_loss_avg(results)),
           IF strategy.evaluate_metrics_aggregation_fn = None THEN EmptyMap
           ELSE weighted_accuracy_avg(results)>>

(* ---------------------------- RichStrategy ----------------------------- *)

\* the try block of aggregate_fit: the loop over the results, left at the
\* first int() that raises
RECURSIVE Tally(_, _)
Tally(results, i) ==
    IF i = 0 THEN [raised |-> FALSE, total_up |-> 0, total_down |-> 0]
    ELSE LET before == Tally(results, i - 1)
             m == results[i].metrics
             upv == Get(m, "up_bytes", Get(m, "bytes", IntVal(0)))
             downv == Get(m, "down_bytes", IntVal(0))
         IN IF before.raised \/ ~results[i].metrics_is_dict THEN before
            ELSE IF IntRaises(upv) \/ IntRaises(downv)
                 THEN [raised |-> TRUE, total_up |-> before.total_up,
                       total_down |-> before.total_down]
            ELSE [raised |-> FALSE, total_up |-> before.total_up + IntOf(upv),
                  total_down |-> before.total_down + IntOf(downv)]

\* mutant: the except clause does not reset the totals
ByteTotals_not_reset(results) ==
    LET t == Tally(results, Len(results))
    IN [total_up |-> t.total_up, total_down |-> t.total_down]

\* total_up and total_down after the try/except
ByteTotals(results) ==
    LET t == Tally(results, Len(results))
    IN IF t.raised THEN [total_up |-> 0, total_down |-> 0]
       ELSE [total_up |-> t.total_up, total_down |-> t.total_down]

\* RichStrategy.initialize_parameters: the table after the call
initialize_parameters(table) == ui_log(table, StrategyLabel, MsgInit)

\* mutant: the instructions carry fresh parameters, not the current ones
configure_fit_fresh_parameters(table, server_round, parameters, clients) ==
    [table |-> ui_log(table, RoundLabel(server_round), MsgConfigureFit),
     instructions |-> [c \in clients |-> ZeroParameters]]

\* RichStrategy.configure_fit: the table after the call, and the
\* instructions of FedAvg.configure_fit handed on as they are
configure_fit(table, server_round, parameters, clients) ==
    [table |-> ui_log(table, RoundLabel(server_round), MsgConfigureFit),
     instructions |-> [c \in clients |-> parameters]]

\* mutant: the aggregate is computed and logged but not returned
aggregate_fit_without_update(table, server_round, results, failures) ==
    IF results = <<>>
    THEN [ret |-> <<NoParameters, EmptyMap>>,
          table |-> ui_log(table, RoundLabel(server_round), MsgNoResults)]
    ELSE LET t1 == ui_log(table, RoundLabel(server_round), MsgAggregating(Len(results)))
             b == ByteTotals(results)
             t2 == IF b.total_up > 0 \/ b.total_down > 0
                   THEN ui_log(t1, RoundLabel(server_round), MsgBytes(b.total_up, b.total_down))
                   ELSE t1
             t3 == IF failures # <<>>
                   THEN ui_log(t2, RoundLabel(server_round), MsgFailed(Len(failures)))
                   ELSE t2
         IN [ret |-> <<NoParameters, EmptyMap>>, table |-> t3]

\* mutant: no early return on empty results
aggregate_fit_without_guard(table, server_round, results, failures) ==
    LET t1 == ui_log(table, RoundLabel(server_round), MsgAggregating(Len(results)))
        b == ByteTotals(results)
        aggregated == FedAvg_aggregate_fit(results, failures)
        t2 == IF b.total_up > 0 \/ b.total_down > 0
              THEN ui_log(t1, RoundLabel(server_round), MsgBytes(b.total_up, b.total_down))
              ELSE t1
        t3 == IF failures # <<>>
              THEN ui_log(t2, RoundLabel(server_round), MsgFailed(Len(failures)))
              ELSE t2
    IN [ret |-> aggregated, table |-> t3]

\* RichStrategy.aggregate_fit: the value returned and the table after the call
aggregate_fit(table, server_round, results, failures) ==
    IF results = <<>>
    THEN [ret |-> <<NoParameters, EmptyMap>>,
          table |-> ui_log(table, RoundLabel(server_round), MsgNoResults)]
    ELSE LET t1 == ui_log(table, RoundLabel(server_round), MsgAggregating(Len(results)))
             b == ByteTotals(results)
             aggregated == FedAvg_aggregate_fit(results, failures)
             t2 == IF b.total_up > 0 \/ b.total_down > 0
                   THEN ui_log(t1, RoundLabel(server_round), MsgBytes(b.total_up, b.total_down))
                   ELSE t1
             t3 == IF failures # <<>>
                   THEN ui_log(t2, RoundLabel(server_round), MsgFailed(Len(failures)))
                   ELSE t2
         IN [ret |-> aggregated, table |-> t3]

\* mutant: configure_evaluate logs the row of configure_fit
configure_evaluate_fit_row(table, server_round, parameters, clients) ==
    [table |-> ui_log(table, RoundLabel(server_round), MsgConfigureFit),
     instructions |-> [c \in clients |-> parameters]]

\* RichStrategy.configure_evaluate
configure_evaluate(table, server_round, parameters, clients) ==
    [table |-> ui_log(table, RoundLabel(server_round), MsgConfigureEvaluate),
     instructions |-> [c \in clients |-> parameters]]

\* mutant: the branch without an accuracy logs nothing
aggregate_evaluate_silent(table, server_round, results, failures) ==
    IF results = <<>>
    THEN [ret |-> <<NoLoss, EmptyMap>>,
          table |-> ui_log(table, RoundLabel(server_round), MsgNoEvaluation)]
    ELSE LET r == FedAvg_aggregate_evaluate(results, failures)
             loss == r[1]
             metrics == r[2]
         IN IF metrics # EmptyMap /\ Has(metrics, "accuracy")
            THEN LET accuracy == Get(metrics, "accuracy", RatVal(Int2Rat(0)))
                 IN [ret |-> <<loss, {<<"accuracy", accuracy>>}>>,
                     table |-> ui_log(table, RoundLabel(server_round), MsgAccuracy(accuracy[2]))]
            ELSE [ret |-> <<loss, metrics>>, table |-> table]

\* RichStrategy.aggregate_evaluate
aggregate_evaluate(table, server_round, results, failures) ==
    IF results = <<>>
    THEN [ret |-> <<NoLoss, EmptyMap>>,
          table |-> ui_log(table, RoundLabel(server_round), MsgNoEvaluation)]
    ELSE LET r == FedAvg_aggregate_evaluate(results, failures)
             loss == r[1]
             metrics == r[2]
         IN IF metrics # EmptyMap /\ Has(metrics, "accuracy")
            THEN LET accuracy == Get(metrics, "accuracy", RatVal(Int2Rat(0)))
                 IN [ret |-> <<loss, {<<"accuracy", accuracy>>}>>,
                     table |-> ui_log(table, RoundLabel(server_round), MsgAccuracy(accuracy[2]))]
            ELSE [ret |-> <<loss, metrics>>,
                  table |-> ui_log(table, RoundLabel(server_round), MsgNoAccuracy)]

(* ------------------------------- state --------------------------------- *)

VARIABLES
    pc,            \* where the server process is
    round,         \* server_round of the current round
    available,     \* the clients connected to the server
    parameters,    \* the GlobalModelState: the server's current parameters
    instructions,  \* client -> parameters handed out by the last configure step
    pending,       \* selected clients that have not answered yet
    results,       \* the results list of the round's phase
    failures,      \* the failures list of the round's phase
    fitRet,        \* what aggregate_fit returned last
    evalRet,       \* what aggregate_evaluate returned last
    table,         \* ServerUI.table: the rows logged so far
    shutdown,      \* what ServerUI.__exit__ told the logger
    clientArg,     \* arguments of a direct call of a FlowerClient method
    clientRet,     \* what that call returned
    calls,         \* history: the strategy callbacks called, in order
    roundStart,    \* history: the GlobalModelState at the round's configure_fit, kept
                   \* while the round's aggregate_fit has had no results to aggregate
    clientFailed   \* history: some client failed in this session

vars == <<pc, round, available, parameters, instructions, pending, results, failures,
          fitRet, evalRet, table, shutdown, clientArg,
          clientRet, calls, roundStart, clientFailed>>

NoInstructions == [c \in {} |-> ZeroParameters]
NoFitReturn == <<NoParameters, EmptyMap>>
NoEvalReturn == <<NoLoss, EmptyMap>>
NoClientCall == [parameters |-> Weights(ZeroParameters, TRUE)]

Running == {"Starting", "AwaitingInitialParameters", "Idle", "AwaitingFitResults",
            "ConfiguringEvaluate", "AwaitingEvalResults"}

\* the state as the with-block of __main__ reaches start_server
Init ==
    /\ pc = "Starting"
    /\ round = 0
    /\ available = {}
    /\ parameters = ZeroParameters
    /\ instructions = NoInstructions
    /\ pending = {}
    /\ results = <<>>
    /\ failures = <<>>
    /\ fitRet = NoFitReturn
    /\ evalRet = NoEvalReturn
    /\ table = ui_log(ui_log(<<>>, SetupLabel, MsgListening), SetupLabel, MsgWaiting)
    /\ shutdown = None
    /\ clientArg = NoClientCall
    /\ clientRet = NoClientCall
    /\ calls = <<>>
    /\ roundStart = ZeroParameters
    /\ clientFailed = FALSE

(* --------------------------- the session ------------------------------- *)

\* a client process starts and connects
Connect(c) ==
    /\ pc \in Running
    /\ c \notin available
    /\ available' = available \cup {c}
    /\ UNCHANGED <<pc, round, parameters, instructions, pending, results, failures,
                   fitRet, evalRet, table, shutdown, clientArg, clientRet, calls, roundStart, clientFailed>>

\* the server asks the strategy for the initial parameters
Initialize ==
    /\ pc = "Starting"
    /\ table' = initialize_parameters(table)
    /\ calls' = Append(calls, <<"initialize_parameters", 0>>)
    /\ pc' = "AwaitingInitialParameters"
    /\ UNCHANGED <<round, available, parameters, instructions, pending, results,
                   failures, fitRet, evalRet, shutdown, clientArg, clientRet, roundStart, clientFailed>>

\* the strategy gave none: one connected client sends the weights of its model
GetInitialParameters ==
    /\ pc = "AwaitingInitialParameters"
    /\ available # {}
    /\ \E w \in ParameterSets : parameters' = w
    /\ round' = 1
    /\ pc' = "Idle"
    /\ UNCHANGED <<available, instructions, pending, results, failures, fitRet,
                   evalRet, table, shutdown, clientArg,
                   clientRet, calls, roundStart, clientFailed>>

ConfigureFit ==
    /\ pc = "Idle"
    /\ Cardinality(available) >= strategy.min_available_clients
    /\ LET cf == configure_fit(table, round, parameters, available)
       IN /\ table' = cf.table
          /\ instructions' = cf.instructions
    /\ pending' = available
    /\ results' = <<>>
    /\ failures' = <<>>
    /\ fitRet' = NoFitReturn
    /\ evalRet' = NoEvalReturn
    /\ roundStart' = parameters
    /\ calls' = Append(calls, <<"configure_fit", round>>)
    /\ pc' = "AwaitingFitResults"
    /\ UNCHANGED <<round, available, parameters, shutdown, clientArg, clientRet, clientFailed>>

\* a selected client trains and answers
FitReply(c) ==
    /\ pc = "AwaitingFitResults"
    /\ c \in pending
    /\ \E trained \in ParameterSets :
          results' = Append(results, FlowerClient_fit(Weights(instructions[c], TRUE),
                                                      Weights(trained, TRUE),
                                                      x_train_len(c)))
    /\ pending' = pending \ {c}
    /\ UNCHANGED <<pc, round, available, parameters, instructions, failures, fitRet,
                   evalRet, table, shutdown, clientArg,
                   clientRet, calls, roundStart, clientFailed>>

\* a selected client fails, or does not answer in time
ClientFails(c) ==
    /\ pc \in {"AwaitingFitResults", "AwaitingEvalResults"}
    /\ c \in pending
    /\ failures' = Append(failures, c)
    /\ pending' = pending \ {c}
    /\ clientFailed' = TRUE
    /\ UNCHANGED <<pc, round, available, parameters, instructions, results, fitRet,
                   evalRet, table, shutdown, clientArg,
                   clientRet, calls, roundStart>>

\* every selected client answered or failed: the server calls aggregate_fit
\* and takes the parameters it returns, if any
AggregateFit ==
    /\ pc = "AwaitingFitResults"
    /\ pending = {}
    /\ LET a == aggregate_fit(table, round, results, failures)
       IN /\ table' = a.table
          /\ fitRet' = a.ret
          /\ parameters' = IF a.ret[1].is_none THEN parameters ELSE a.ret[1].value
    /\ roundStart' = IF results = <<>> THEN roundStart ELSE parameters'
    /\ calls' = Append(calls, <<"aggregate_fit", round>>)
    /\ pc' = "ConfiguringEvaluate"
    /\ UNCHANGED <<round, available, instructions, pending, results, failures, evalRet,
                   shutdown, clientArg, clientRet, clientFailed>>

ConfigureEvaluate ==
    /\ pc = "ConfiguringEvaluate"
    /\ Cardinality(available) >= strategy.min_available_clients
    /\ LET ce == configure_evaluate(table, round, parameters, available)
       IN /\ table' = ce.table
          /\ instructions' = ce.instructions
    /\ pending' = available
    /\ results' = <<>>
    /\ failures' = <<>>
    /\ calls' = Append(calls, <<"configure_evaluate", round>>)
    /\ pc' = "AwaitingEvalResults"
    /\ UNCHANGED <<round, available, parameters, fitRet, evalRet, shutdown, clientArg, clientRet, roundStart, clientFailed>>

\* a selected client evaluates and answers
EvaluateReply(c) ==
    /\ pc = "AwaitingEvalResults"
    /\ c \in pending
    /\ \E o \in EvaluateOutcomes :
          results' = Append(results, FlowerClient_evaluate(Weights(instructions[c], TRUE),
                                                           o[1], o[2], x_test_len(c)))
    /\ pending' = pending \ {c}
    /\ UNCHANGED <<pc, round, available, parameters, instructions, failures, fitRet,
                   evalRet, table, shutdown, clientArg,
                   clientRet, calls, roundStart, clientFailed>>

\* the server calls aggregate_evaluate; the next round starts, or the
\* session is over after round num_rounds
AggregateEvaluate ==
    /\ pc = "AwaitingEvalResults"
    /\ pending = {}
    /\ LET a == aggregate_evaluate(table, round, results, failures)
       IN /\ table' = a.table
          /\ evalRet' = a.ret
    /\ calls' = Append(calls, <<"aggregate_evaluate", round>>)
    /\ IF round < num_rounds
       THEN /\ round' = round + 1
            /\ pc' = "Idle"
       ELSE /\ round' = round
            /\ pc' = "Done"
    /\ UNCHANGED <<available, parameters, instructions, pending, results, failures,
                   fitRet, shutdown, clientArg, clientRet,
                   roundStart, clientFailed>>

\* start_server raises an Exception: the except clause of __main__ logs it;
\* the server object and what it held are gone
Raise(e) ==
    /\ pc \in Running
    /\ table' = ui_log(table, FatalLabel, MsgError(e))
    /\ pc' = "Aborted"
    /\ instructions' = NoInstructions
    /\ pending' = {}
    /\ results' = <<>>
    /\ failures' = <<>>
    /\ fitRet' = NoFitReturn
    /\ evalRet' = NoEvalReturn
    /\ UNCHANGED <<round, available, parameters, shutdown, clientArg, clientRet, calls, roundStart, clientFailed>>

\* start_server is left by a BaseException that is no Exception (an
\* interrupt): the except clause does not catch it
Interrupt ==
    /\ pc \in Running
    /\ pc' = "Interrupted"
    /\ instructions' = NoInstructions
    /\ pending' = {}
    /\ results' = <<>>
    /\ failures' = <<>>
    /\ fitRet' = NoFitReturn
    /\ evalRet' = NoEvalReturn
    /\ UNCHANGED <<round, available, parameters, table, shutdown, clientArg, clientRet, calls, roundStart, clientFailed>>

\* the with-block is left: ServerUI.__exit__ with the exception that leaves it
Exit ==
    /\ pc \in {"Done", "Aborted", "Interrupted"}
    /\ shutdown' = ServerUI_exit(IF pc = "Interrupted" THEN "KeyboardInterrupt" ELSE None)
    /\ pc' = "Exited"
    /\ UNCHANGED <<round, available, parameters, instructions, pending, results,
                   failures, fitRet, evalRet, table, clientArg, clientRet, calls, roundStart, clientFailed>>

Next ==
    \/ \E c \in Clients : Connect(c)
    \/ Initialize
    \/ GetInitialParameters
    \/ ConfigureFit
    \/ \E c \in Clients : FitReply(c)
    \/ \E c \in Clients : ClientFails(c)
    \/ AggregateFit
    \/ ConfigureEvaluate
    \/ \E c \in Clients : EvaluateReply(c)
    \/ AggregateEvaluate
    \/ \E e \in ErrorMessages : Raise(e)
    \/ Interrupt
    \/ Exit

Spec == Init /\ [][Next]_vars

\* the server loop and the client processes keep running
FairSpec == Spec /\ WF_vars(Next)

(* ------------------ direct calls of the operations --------------------- *)

SeqsUpTo(S, n) == UNION {[1..k -> S] : k \in 0..n}

\* the metrics a FitRes can carry: what FlowerClient.fit reports, a map with
\* the bytes key alone, a map whose down_bytes int() raises on, and a
\* metrics attribute that is no dict
FitMetricsInputs ==
    {[metrics |-> {<<"up_bytes", IntVal(2 * TensorBytes)>>, <<"down_bytes", IntVal(2 * TensorBytes)>>},
      metrics_is_dict |-> TRUE],
     [metrics |-> {<<"bytes", IntVal(TensorBytes)>>}, metrics_is_dict |-> TRUE],
     [metrics |-> {<<"up_bytes", IntVal(TensorBytes)>>, <<"down_bytes", BadVal>>},
      metrics_is_dict |-> TRUE],
     [metrics |-> EmptyMap, metrics_is_dict |-> FALSE]}

FitResInputs ==
    {[parameters |-> w, num_examples |-> n, metrics |-> m.metrics,
      metrics_is_dict |-> m.metrics_is_dict] :
        w \in ParameterSets, n \in 1..MaxExamples, m \in FitMetricsInputs}

\* an EvaluateRes with or without an accuracy in its metrics
EvaluateResInputs ==
    {FlowerClient_evaluate(Weights(ZeroParameters, TRUE), o[1], o[2], n) :
        o \in EvaluateOutcomes, n \in 1..MaxExamples}
    \cup {[loss |-> o[1], num_examples |-> n,
           metrics |-> {<<"down_bytes", IntVal(0)>>}] :
        o \in EvaluateOutcomes, n \in 1..MaxExamples}

FailureInputs == SeqsUpTo({1}, MaxFailures)
RoundInputs == {1, num_rounds}

\* a strategy and a client on their own, nothing called yet
InitCall ==
    /\ pc = "Call"
    /\ round = 0
    /\ available = {}
    /\ parameters = ZeroParameters
    /\ instructions = NoInstructions
    /\ pending = {}
    /\ results = <<>>
    /\ failures = <<>>
    /\ fitRet = NoFitReturn
    /\ evalRet = NoEvalReturn
    /\ table = <<>>
    /\ shutdown = None
    /\ clientArg = NoClientCall
    /\ clientRet = NoClientCall
    /\ calls = <<>>
    /\ roundStart = ZeroParameters
    /\ clientFailed = FALSE

CallAggregateFit ==
    /\ pc = "Call"
    /\ \E r \in RoundInputs, rs \in SeqsUpTo(FitResInputs, MaxResults), fs \in FailureInputs :
          LET a == aggregate_fit(table, r, rs, fs)
          IN /\ round' = r
             /\ results' = rs
             /\ failures' = fs
             /\ fitRet' = a.ret
             /\ table' = a.table
    /\ pc' = "CalledAggregateFit"
    /\ UNCHANGED <<available, parameters, instructions, pending, evalRet, shutdown,
                   clientArg, clientRet, calls, roundStart, clientFailed>>

CallAggregateEvaluate ==
    /\ pc = "Call"
    /\ \E r \in RoundInputs, rs \in SeqsUpTo(EvaluateResInputs, MaxResults), fs \in FailureInputs :
          LET a == aggregate_evaluate(table, r, rs, fs)
          IN /\ round' = r
             /\ results' = rs
             /\ failures' = fs
             /\ evalRet' = a.ret
             /\ table' = a.table
    /\ pc' = "CalledAggregateEvaluate"
    /\ UNCHANGED <<available, parameters, instructions, pending, fitRet, shutdown,
                   clientArg, clientRet, calls, roundStart, clientFailed>>

CallFit ==
    /\ pc = "Call"
    /\ \E p \in WeightLists, trained \in WeightLists, n \in 1..MaxExamples :
          /\ clientArg' = [parameters |-> p, trained |-> trained, n |-> n]
          /\ clientRet' = FlowerClient_fit(p, trained, n)
    /\ pc' = "CalledFit"
    /\ UNCHANGED <<round, available, parameters, instructions, pending, results,
                   failures, fitRet, evalRet, table, shutdown, calls, roundStart,
                   clientFailed>>

CallEvaluate ==
    /\ pc = "Call"
    /\ \E p \in WeightLists, o \in EvaluateOutcomes, n \in 1..MaxExamples :
          /\ clientArg' = [parameters |-> p, loss |-> o[1], accuracy |-> o[2], n |-> n]
          /\ clientRet' = FlowerClient_evaluate(p, o[1], o[2], n)
    /\ pc' = "CalledEvaluate"
    /\ UNCHANGED <<round, available, parameters, instructions, pending, results,
                   failures, fitRet, evalRet, table, shutdown, calls, roundStart,
                   clientFailed>>

CallNext ==
    \/ CallAggregateFit
    \/ CallAggregateEvaluate
    \/ CallFit
    \/ CallEvaluate

CallSpec == InitCall /\ [][CallNext]_vars

(* ------------------------------ claims --------------------------------- *)

Rows(label) == {i \in 1..Len(table) : table[i].event = label}
RowsOfKind(label, kind) == {i \in Rows(label) : table[i].details[1] = kind}
HasRow(label, details) == \E i \in Rows(label) : table[i].details = details

\* sum over the results of num_examples * (integer value of the layer)
RECURSIVE ExampleWeightedSum(_, _, _)
ExampleWeightedSum(rs, l, i) ==
    IF i = 0 THEN 0
    ELSE rs[i].num_examples * rs[i].parameters[l][1] + ExampleWeightedSum(rs, l, i - 1)

RECURSIVE ExampleCount(_, _)
ExampleCount(rs, i) == IF i = 0 THEN 0 ELSE rs[i].num_examples + ExampleCount(rs, i - 1)

\* v is the example_count-weighted mean of layer l of the results
IsWeightedMean(v, rs, l) ==
    /\ v[2] > 0
    /\ v[1] * ExampleCount(rs, Len(rs)) = v[2] * ExampleWeightedSum(rs, l, Len(rs))
    /\ GCD[Abs(v[1]), v[2]] = 1

\* C1: aggregate_fit called with non-empty results (positive example
\* counts) returns, for every element of the ParameterSet, the
\* example_count-weighted average of the clients' values; a single result
\* is returned exactly as the client sent it.
C1_WeightedAverage ==
    (pc = "CalledAggregateFit" /\ results # <<>>) =>
        /\ ~fitRet[1].is_none
        /\ \A l \in Layers : IsWeightedMean(fitRet[1].value[l], results, l)
        /\ Len(results) = 1 => fitRet[1].value = results[1].parameters

C1_Witness ==
    /\ pc = "CalledAggregateFit"
    /\ Len(results) = 2
    /\ results[1].num_examples = 1
    /\ results[2].num_examples = 2
    /\ results[1].parameters["kernel"] = Int2Rat(0)
    /\ results[2].parameters["kernel"] = Int2Rat(1)
    /\ fitRet[1].value["kernel"] = <<2, 3>>

\* the accuracy rows of round r: an aggregated value or the unavailable marker
AccuracyRows(r) ==
    RowsOfKind(RoundLabel(r), MsgNoAccuracy[1]) \cup RowsOfKind(RoundLabel(r), "AGGREGATED ACCURACY")

\* C2 as claimed: after aggregate_evaluate of a round whose results all
\* carry an accuracy, the returned metrics hold the example_count-weighted
\* average accuracy and the round has an aggregated-accuracy row and no
\* 'no accuracy metrics available' row.
C2_AccuracySurfaced ==
    (/\ pc \in {"Idle", "Done"}
     /\ calls # <<>>
     /\ Last(calls)[1] = "aggregate_evaluate"
     /\ results # <<>>
     /\ \A i \in 1..Len(results) : Has(results[i].metrics, "accuracy")) =>
        LET r == Last(calls)[2]
        IN /\ evalRet[2] = weighted_accuracy_avg(results)
           /\ RowsOfKind(RoundLabel(r), "AGGREGATED ACCURACY") # {}
           /\ RowsOfKind(RoundLabel(r), MsgNoAccuracy[1]) = {}

\* C3 as claimed: after aggregate_fit with a non-empty failures list the
\* round has a failure-warning row, whatever the results list.
C3_FailuresLogged ==
    (pc = "CalledAggregateFit" /\ failures # <<>>) =>
        HasRow(RoundLabel(round), MsgFailed(Len(failures)))

\* C4: called with empty results, aggregate_fit returns (None, {}) and
\* aggregate_evaluate returns (None, {}), for any failures list; each logs
\* exactly one row, and that row is logged by no call that has results.
C4_EmptyResults ==
    /\ (pc = "CalledAggregateFit" /\ results = <<>>) =>
          /\ fitRet[1].is_none
          /\ fitRet[2] = EmptyMap
          /\ table = <<[event |-> RoundLabel(round), details |-> MsgNoResults]>>
    /\ (pc = "CalledAggregateEvaluate" /\ results = <<>>) =>
          /\ evalRet[1].is_none
          /\ evalRet[2] = EmptyMap
          /\ table = <<[event |-> RoundLabel(round), details |-> MsgNoEvaluation]>>
    /\ (pc \in {"CalledAggregateFit", "CalledAggregateEvaluate"} /\ results # <<>>) =>
          /\ table # <<>>
          /\ \A i \in 1..Len(table) : table[i].details \notin {MsgNoResults, MsgNoEvaluation}

C4_Witness ==
    /\ pc = "CalledAggregateFit"
    /\ results = <<>>
    /\ failures # <<>>
    /\ fitRet[1].is_none

HasFatal == \E i \in 1..Len(table) : table[i].event = FatalLabel

\* a client failed, or start_server was left by an exception
Disturbed ==
    \/ clientFailed
    \/ HasFatal
    \/ pc = "Interrupted"
    \/ shutdown = ServerUI_exit("KeyboardInterrupt")

\* C5: a session of num_rounds rounds with two clients in which no client
\* fails (and start_server is not left by an exception) reaches Done, and
\* at Done every round 1..num_rounds has exactly one accuracy row (a value
\* or the unavailable marker), num_rounds rows in all.
C5_SessionCompletes ==
    /\ <>(Disturbed \/ pc = "Done")
    /\ []((pc = "Done" /\ ~clientFailed) =>
            /\ \A r \in 1..num_rounds : Cardinality(AccuracyRows(r)) = 1
            /\ Cardinality({i \in 1..Len(table) :
                              table[i].details[1] \in {MsgNoAccuracy[1], "AGGREGATED ACCURACY"}})
                 = num_rounds)

C5_Witness ==
    /\ pc = "Done"
    /\ ~clientFailed
    /\ Cardinality(available) = min_clients
    /\ \A r \in 1..num_rounds : Cardinality(AccuracyRows(r)) = 1

CallbackNames == <<"configure_fit", "aggregate_fit", "configure_evaluate", "aggregate_evaluate">>

\* the k-th callback of a session
ExpectedCall(k) ==
    IF k = 1 THEN <<"initialize_parameters", 0>>
    ELSE <<CallbackNames[((k - 2) % 4) + 1], ((k - 2) \div 4) + 1>>

\* the callback a row of the table is the first row of, if any
RowCallback(row) ==
    IF row.details = MsgInit THEN "initialize_parameters"
    ELSE IF row.details = MsgConfigureFit THEN "configure_fit"
    ELSE IF row.details[1] \in {MsgNoResults[1], MsgAggregating(0)[1]} THEN "aggregate_fit"
    ELSE IF row.details = MsgConfigureEvaluate THEN "configure_evaluate"
    ELSE IF row.details[1] \in {MsgNoEvaluation[1], MsgNoAccuracy[1], "AGGREGATED ACCURACY"}
         THEN "aggregate_evaluate"
    ELSE "none"

\* the callbacks as the table shows them, in order
LoggedCalls ==
    LET F[i \in 0..Len(table)] ==
            IF i = 0 THEN <<>>
            ELSE IF RowCallback(table[i]) = "none" THEN F[i - 1]
            ELSE Append(F[i - 1], <<RowCallback(table[i]), table[i].event[2]>>)
    IN F[Len(table)]

\* C6: the callbacks of a session are initialize_parameters, then for
\* r = 1, 2, ..., num_rounds in this order configure_fit(r), aggregate_fit(r),
\* configure_evaluate(r), aggregate_evaluate(r); the rows the callbacks log
\* show the same order; Done is reached only after aggregate_evaluate(num_rounds).
C6_CallbackOrder ==
    /\ Len(calls) <= 1 + 4 * num_rounds
    /\ \A k \in 1..Len(calls) : calls[k] = ExpectedCall(k)
    /\ LoggedCalls = calls
    /\ pc \in {"Idle", "AwaitingFitResults", "ConfiguringEvaluate", "AwaitingEvalResults"} =>
          /\ calls # <<>>
          /\ round \in 1..num_rounds
          /\ Last(calls)[2] \in {round, round - 1}
    /\ pc = "Done" =>
          /\ Len(calls) = 1 + 4 * num_rounds
          /\ Last(calls) = <<"aggregate_evaluate", num_rounds>>

C6_Witness ==
    /\ pc = "Done"
    /\ Last(calls) = <<"aggregate_evaluate", num_rounds>>
    /\ LoggedCalls = calls

\* C7: the GlobalModelState, once the session has its initial parameters,
\* changes only in the aggregate_fit step of a round with non-empty results;
\* the configure steps hand it unchanged to every selected client; a round
\* whose aggregate_fit had empty results keeps the state it started with.
C7_GlobalModelFrame ==
    /\ [][parameters' # parameters =>
            \/ pc = "AwaitingInitialParameters"
            \/ /\ pc = "AwaitingFitResults"
               /\ pc' = "ConfiguringEvaluate"
               /\ results # <<>>]_vars
    /\ [](pc \in {"AwaitingFitResults", "AwaitingEvalResults"} =>
            /\ pending \subseteq DOMAIN instructions
            /\ Cardinality(DOMAIN instructions) >= min_clients
            /\ \A c \in DOMAIN instructions : instructions[c] = parameters)
    /\ []((/\ pc \in Running \cup {"Done"}
           /\ calls # <<>>
           /\ Last(calls)[1] \in {"aggregate_fit", "configure_evaluate", "aggregate_evaluate"}
           /\ RowsOfKind(RoundLabel(Last(calls)[2]), MsgNoResults[1]) # {}) =>
            parameters = roundStart)

C7_Witness ==
    /\ pc = "Done"
    /\ RowsOfKind(RoundLabel(1), MsgNoResults[1]) # {}
    /\ RowsOfKind(RoundLabel(2), MsgAggregating(0)[1]) # {}
    /\ RowsOfKind(RoundLabel(num_rounds), MsgNoResults[1]) # {}
    /\ parameters = roundStart

\* C8: with at least one result, the failures list does not change what
\* aggregate_fit returns: it returns what it returns for the same results
\* and no failures, the weighted average of the results.
C8_FailuresDoNotChangeUpdate ==
    (pc = "CalledAggregateFit" /\ results # <<>> /\ failures # <<>>) =>
        /\ fitRet = aggregate_fit(<<>>, round, results, <<>>).ret
        /\ ~fitRet[1].is_none
        /\ \A l \in Layers : IsWeightedMean(fitRet[1].value[l], results, l)

C8_Witness ==
    /\ pc = "CalledAggregateFit"
    /\ Len(results) = 1
    /\ failures # <<>>
    /\ fitRet[1].value = results[1].parameters
    /\ HasRow(RoundLabel(round), MsgFailed(Len(failures)))

\* the results with the metrics FlowerClient.fit reports, which tally
CleanMetrics(rs) ==
    [i \in 1..Len(rs) |->
        [parameters |-> rs[i].parameters, num_examples |-> rs[i].num_examples,
         metrics |-> {<<"up_bytes", IntVal(TensorBytes)>>, <<"down_bytes", IntVal(TensorBytes)>>},
         metrics_is_dict |-> TRUE]]

\* int() raises on a metric the tally of aggregate_fit reads
TallyFails(rs) ==
    \E i \in 1..Len(rs) :
        /\ rs[i].metrics_is_dict
        /\ \/ Has(rs[i].metrics, "down_bytes") /\ Get(rs[i].metrics, "down_bytes", BadVal) = BadVal
           \/ Has(rs[i].metrics, "up_bytes") /\ Get(rs[i].metrics, "up_bytes", BadVal) = BadVal

\* C9: when nbytes fails in FlowerClient.fit or FlowerClient.evaluate the
\* metric concerned is 0 and the call returns its weights or loss and its
\* example count all the same; when the tally of aggregate_fit fails both
\* totals are 0 (no byte row is logged) and aggregate_fit returns what it
\* returns for the same results when the tally succeeds.
C9_ByteCountingBestEffort ==
    /\ pc = "CalledFit" =>
          /\ clientRet.parameters = clientArg.trained.tensors
          /\ clientRet.num_examples = clientArg.n
          /\ ~clientArg.parameters.sized => Get(clientRet.metrics, "down_bytes", BadVal) = IntVal(0)
          /\ ~clientArg.trained.sized => Get(clientRet.metrics, "up_bytes", BadVal) = IntVal(0)
    /\ pc = "CalledEvaluate" =>
          /\ clientRet.loss = clientArg.loss
          /\ clientRet.num_examples = clientArg.n
          /\ ~clientArg.parameters.sized => Get(clientRet.metrics, "down_bytes", BadVal) = IntVal(0)
    /\ (pc = "CalledAggregateFit" /\ results # <<>> /\ TallyFails(results)) =>
          /\ RowsOfKind(RoundLabel(round), MsgBytes(0, 0)[1]) = {}
          /\ fitRet = aggregate_fit(<<>>, round, CleanMetrics(results), failures).ret
          /\ ~fitRet[1].is_none

C9_Witness ==
    /\ pc = "CalledAggregateFit"
    /\ Len(results) = 2
    /\ ~TallyFails(<<results[1]>>)
    /\ Has(results[1].metrics, "up_bytes")
    /\ TallyFails(<<results[2]>>)
    /\ ~fitRet[1].is_none
    /\ RowsOfKind(RoundLabel(round), MsgBytes(0, 0)[1]) = {}

\* C10 as claimed: the logger is told of a graceful shutdown only in a
\* session that logged no FATAL ERROR row.
C10_GracefulOnlyWithoutFatal ==
    shutdown = ServerUI_exit(None) => ~HasFatal

====
